---- MODULE Spec2Model ----
(***************************************************************************)
(* The queue-and-session state machine of the rina music bot               *)
(* (src/src/main.rs): the command handlers join, leave, mute, unmute,      *)
(* play, skip, stop, queue, now, help and the voice_state_update event     *)
(* handler, over the songbird manager's per-guild Call (session), its      *)
(* connection, its mute flag and its track queue.                          *)
(***************************************************************************)
EXTENDS Integers, Sequences, FiniteSets, TLC

\* ------------------------------------------------------------------------
\* Bounds of the model
\* ------------------------------------------------------------------------
\* number of tracks (uuids) ever created in one behaviour
MaxTracks == 3
\* longest playlist playlist::query returns
MaxPlaylist == 2
\* longest queue the listing commands are run on
MaxQueueLen == 52

\* ------------------------------------------------------------------------
\* Program constants
\* ------------------------------------------------------------------------
\* main.rs:509  Ok(amount) if amount > 20
MaxSkip == 20
\* main.rs:749  tracks.len().max(50)
QueueListMax == 50

Guilds == {"g1", "g2"}
\* the guild whose commands and events the single-guild specifications run;
\* no user of the other guild is in a voice channel there
Active == {"g1"}
Users == {"u1", "u2"}
Channels == {"c1", "c2"}
\* Option::None of a channel id
None == "none"
\* no track (Option::None of a track handle)
NoTrack == 0
TrackIds == 1..MaxTracks

VARIABLES
    voice_states,     \* guild.voice_states: guild -> user -> channel or None
    calls,            \* guilds that have a Call in the songbird manager
    current_channel,  \* Call::current_channel() of the guild's Call
    bot_in,           \* voice channels of the guild the bot is a member of
    is_mute,          \* Call::is_mute()
    tracks,           \* the Call's TrackQueue, head first (track uuids)
    playing,          \* the track the driver is playing, or NoTrack
    ended,            \* queued tracks that were stopped or have ended and
                      \* whose End event the queue has not handled yet
    next_uuid,        \* uuid of the next track created
    last,             \* the last handler invocation and its reply
    task              \* user -> the command of the user that is in flight
                      \* (each command runs on a task of its own) and the
                      \* point it has reached

vars == <<voice_states, calls, current_channel, bot_in, is_mute, tracks,
          playing, ended, next_uuid, last, task>>

\* the state of one guild's session
Session(g) == <<g \in calls, current_channel[g], bot_in[g], is_mute[g],
                tracks[g], playing[g], ended[g]>>

\* ------------------------------------------------------------------------
\* Replies (descriptions of the embeds sent with send_message)
\* ------------------------------------------------------------------------
NoReply == "<no reply>"
Panicked == "<panic>"
PanickedNoTitle == "<panic: Track title guaranteed to exists in typemap>"
Pending == "<in flight>"
ReturnedErr == "<returned Err>"
ErrNotInVoice == "User not in a voice channel"
ErrNotSameChannel == "User not in the same voice channel"
ErrAlreadyJoined == "I'm already in another voice channel"
ErrCouldNotJoin == "Could not join the voice channel"
ErrPlayCouldNotJoin == "Could not join voice channel"
ErrFailedLeaving == "Failed leaving voice channel"
ErrCouldNotMute == "Could not mute myself"
ErrCouldNotUnmute == "Could not unmute myself"
ErrMissingMusic == "Missing music or URL argument"
ErrPlaylist == "Could not load track from playlist"
ErrQueueEmpty == "Queue is already empty. No tracks to skip"
ErrSkipTooMany == "Cannot skip more than 20 tracks at once"
ErrSkipNotPositive == "Amount of tracks to skip must be a positive integer"
ErrCouldNotSkip == "Could not skip current track"
LogNotLeave == "Voice state updated, but not a leave event"
LogLookupFailed == "Failed getting guild channels or members from channel"
LogRemaining == "Remaining members connected to voice channel"
LogFailedAutoLeave == "Failed leaving empty voice channel automatically"
LogAutoLeft == "<left the empty voice channel>"
OkJoined == "Joined"
OkLeft == "Left voice channel"
OkAlreadyMuted == "I'm already muted. Use !unmute to unmute me"
OkMuted == "I'm now muted. Use !unmute to unmute me"
OkUnmuted == "I'm now unmuted. Use !mute to mute me"
OkPlaylistAdded == "tracks added to the queue"
OkSkippedCurrent == "Current track skipped"
OkSkippedFollowing == "Skipped following tracks:"
OkQueueEmpty == "Queue is curently empty"
OkQueue == "Now playing: .. Total tracks in queue: .."
OkNotPlaying == "Not currently playing a track"
OkNow == "Now playing"
OkHelp == "Available commands"

\* the embeds built with EmbedBuilder::error()
ErrorReplies == {ErrNotInVoice, ErrNotSameChannel, ErrAlreadyJoined,
    ErrCouldNotJoin, ErrPlayCouldNotJoin, ErrFailedLeaving, ErrCouldNotMute,
    ErrCouldNotUnmute, ErrMissingMusic, ErrPlaylist, ErrQueueEmpty,
    ErrSkipTooMany, ErrSkipNotPositive, ErrCouldNotSkip}

\* record of a handler invocation: the command (or event), its guild, its
\* author, its argument (kind and value), the reply sent, for a voice state
\* event the channel before and after, and for queue and now the track the
\* reply names as playing and the tracks it lists
Invocation(op, g, u, kind, val, reply) ==
    [op |-> op, g |-> g, u |-> u, kind |-> kind, val |-> val, reply |-> reply,
     from |-> None, to |-> None, now |-> NoTrack, list |-> <<>>]

Command(op, g, u, reply) == Invocation(op, g, u, "none", 0, reply)

\* a voice state event: in place of a reply, the line the handler logs
VoiceEvent(g, u, old, new, log) ==
    [Invocation("voice_state_update", g, u, "none", 0, log)
        EXCEPT !.from = old, !.to = new]

\* no command of the user is in flight
IdleTask == [pc |-> "idle", g |-> None, c |-> None, n |-> 0, t |-> NoTrack,
             call |-> "live"]

\* ------------------------------------------------------------------------
\* Helpers shared by the handlers
\* ------------------------------------------------------------------------
\* tracks of the guild's queue whose typemap has no TrackTitleKey yet: the
\* track a play command has enqueued and not yet given its title
Untitled(g) ==
    {task[u].t : u \in {v \in Users : /\ task[v].pc = "title"
                                      /\ task[v].g = g
                                      /\ task[v].call = "live"}}

\* get_track_title(track) for each of the tracks ts: the expect() panics
\* when the title of one of them is missing
TitleMissing(g, ts) == ts \cap Untitled(g) /= {}

\* guild.voice_states.get(&msg.author.id).and_then(|vs| vs.channel_id)
author_channel_id(g, u) == voice_states[g][u]

\* author_channel_id.map(ChannelId::from) != voice.current_channel()
NotSameChannel(g, u) == author_channel_id(g, u) /= current_channel[g]

\* the voice states of a cache in which only the guilds gs have users in
\* voice channels
VoiceStatesIn(gs) ==
    {vs \in [Guilds -> [Users -> Channels \cup {None}]] :
        \A g \in Guilds \ gs : \A u \in Users : vs[g][u] = None}

\* the state after start-up: no Call in the manager
NoCalls ==
    /\ calls = {}
    /\ current_channel = [g \in Guilds |-> None]
    /\ bot_in = [g \in Guilds |-> {}]
    /\ is_mute = [g \in Guilds |-> FALSE]
    /\ tracks = [g \in Guilds |-> <<>>]
    /\ playing = [g \in Guilds |-> NoTrack]
    /\ ended = [g \in Guilds |-> {}]
    /\ next_uuid = 1
    /\ last = Command("init", "g1", "u1", NoReply)
    /\ task = [u \in Users |-> IdleTask]

Init ==
    /\ voice_states \in VoiceStatesIn(Active)
    /\ NoCalls

\* ------------------------------------------------------------------------
\* The songbird manager: the calls of the handlers into the voice library
\* ------------------------------------------------------------------------
\* mutant of ManagerGet: a Call is handed out for every guild
ManagerGetAlways(g) == TRUE

\* manager.get(guild_id).is_some()
ManagerGet(g) == g \in calls

\* manager.join(guild_id, connect_to): get_or_insert the guild's Call and
\* connect it to the channel (leaving the channel it was connected to). A
\* failed join leaves the Call in the manager, with the channel it tried.
ManagerJoin(g, c, ok) ==
    /\ calls' = calls \cup {g}
    /\ current_channel' = [current_channel EXCEPT ![g] = c]
    /\ bot_in' = [bot_in EXCEPT ![g] =
            LET kept == IF current_channel[g] \in {None, c}
                        THEN @ ELSE @ \ {current_channel[g]}
            IN  IF ok THEN kept \cup {c} ELSE kept]

\* The tasks in flight after the guild's Call was dropped from the manager:
\* a play task that has got the Call (the Arc of lines 360-379) keeps it. Its
\* Call is now a removed one, the last removed ("removed") or, when the task
\* held a removed Call already, an older one ("older").
Orphaned(g) ==
    LET holds(u) == /\ task[u].g = g
                    /\ task[u].pc \in {"metadata", "query", "locked", "title"}
        live == {u \in Users : holds(u) /\ task[u].call = "live"}
    IN
    [u \in Users |->
        IF u \in live THEN [task[u] EXCEPT !.call = "removed"]
        ELSE IF holds(u) /\ live /= {} THEN [task[u] EXCEPT !.call = "older"]
        ELSE task[u]]

\* mutant of ManagerRemove: the Call is dropped from the manager without
\* leaving the voice channel
ManagerRemoveStaysInChannel(g, ok) ==
    IF ok
    THEN /\ calls' = calls \ {g}
         /\ current_channel' = [current_channel EXCEPT ![g] = None]
         /\ is_mute' = [is_mute EXCEPT ![g] = FALSE]
         /\ tracks' = [tracks EXCEPT ![g] = <<>>]
         /\ playing' = [playing EXCEPT ![g] = NoTrack]
         /\ ended' = [ended EXCEPT ![g] = {}]
         /\ task' = Orphaned(g)
         /\ UNCHANGED bot_in
    ELSE /\ current_channel' = [current_channel EXCEPT ![g] = None]
         /\ UNCHANGED <<task, calls, bot_in, is_mute, tracks, playing,
                        ended>>

\* mutant of ManagerRemove: the Calls of all guilds are dropped
ManagerRemoveAll(g, ok) ==
    IF ok
    THEN /\ calls' = {}
         /\ current_channel' = [h \in Guilds |-> None]
         /\ bot_in' = [h \in Guilds |-> {}]
         /\ is_mute' = [h \in Guilds |-> FALSE]
         /\ tracks' = [h \in Guilds |-> <<>>]
         /\ playing' = [h \in Guilds |-> NoTrack]
         /\ ended' = [h \in Guilds |-> {}]
         /\ task' = Orphaned(g)
    ELSE /\ current_channel' = [current_channel EXCEPT ![g] = None]
         /\ UNCHANGED <<task, calls, bot_in, is_mute, tracks, playing,
                        ended>>

\* manager.remove(guild_id): leave the voice channel and drop the Call with
\* its driver, its mute flag and its queue. When the gateway update of the
\* leave fails the Call stays in the manager, disconnected.
ManagerRemove(g, ok) ==
    IF ok
    THEN /\ calls' = calls \ {g}
         /\ current_channel' = [current_channel EXCEPT ![g] = None]
         /\ bot_in' = [bot_in EXCEPT ![g] = {}]
         /\ is_mute' = [is_mute EXCEPT ![g] = FALSE]
         /\ tracks' = [tracks EXCEPT ![g] = <<>>]
         /\ playing' = [playing EXCEPT ![g] = NoTrack]
         /\ ended' = [ended EXCEPT ![g] = {}]
         /\ task' = Orphaned(g)
    ELSE /\ current_channel' = [current_channel EXCEPT ![g] = None]
         /\ UNCHANGED <<task, calls, bot_in, is_mute, tracks, playing,
                        ended>>

\* ------------------------------------------------------------------------
\* The Call's TrackQueue (voice.queue()) and its tracks
\* ------------------------------------------------------------------------
\* the uuids next_uuid .. next_uuid + n - 1, in order
NewTracks(n) == [i \in 1..n |-> next_uuid + i - 1]

\* voice.queue().current(): the handle of the track at the head, if any
QueueCurrent(g) == IF tracks[g] = <<>> THEN NoTrack ELSE Head(tracks[g])

\* the elements of a sequence
Range(q) == {q[i] : i \in 1..Len(q)}

\* mutant of Enqueue: the batch is put in front of the queue
EnqueueAtHead(g, n) ==
    /\ tracks' = [tracks EXCEPT ![g] = NewTracks(n) \o @]
    /\ playing' = [playing EXCEPT ![g] =
            IF tracks[g] = <<>> /\ n > 0 THEN next_uuid ELSE @]
    /\ next_uuid' = next_uuid + n

\* mutant of Enqueue: the first track of the batch is played at once, also
\* when another track is playing
EnqueuePlaysNew(g, n) ==
    /\ tracks' = [tracks EXCEPT ![g] = @ \o NewTracks(n)]
    /\ playing' = [playing EXCEPT ![g] = IF n > 0 THEN next_uuid ELSE @]
    /\ next_uuid' = next_uuid + n

\* voice.enqueue_with_preload(track, None), once per track of the batch: the
\* track goes to the tail of the queue; it is played at once when the queue
\* was empty and is paused otherwise
Enqueue(g, n) ==
    /\ tracks' = [tracks EXCEPT ![g] = @ \o NewTracks(n)]
    /\ playing' = [playing EXCEPT ![g] =
            IF tracks[g] = <<>> /\ n > 0 THEN next_uuid ELSE @]
    /\ next_uuid' = next_uuid + n

\* voice.queue().skip(): stops the track at the head. The track leaves the
\* queue later, when the queue handles the End event of the stopped track.
QueueSkip(g, rest) ==
    /\ playing' = [playing EXCEPT ![g] =
            IF @ = Head(tracks[g]) THEN NoTrack ELSE @]
    /\ ended' = [ended EXCEPT ![g] = (@ \cup {Head(tracks[g])}) \cap Range(rest)]

\* q.drain(0..k) inside modify_queue: the queue without its first k tracks
Drain(q, k) == SubSeq(q, k + 1, Len(q))

\* mutant of QueueStop: only the track at the head is stopped and removed
QueueStopOnlyCurrent(g) ==
    /\ tracks' = [tracks EXCEPT ![g] = IF @ = <<>> THEN @ ELSE Tail(@)]
    /\ playing' = [playing EXCEPT ![g] = NoTrack]
    /\ ended' = [ended EXCEPT ![g] = {}]

\* voice.queue().stop(): drains the queue and stops every track of it
QueueStop(g) ==
    /\ tracks' = [tracks EXCEPT ![g] = <<>>]
    /\ playing' = [playing EXCEPT ![g] = NoTrack]
    /\ ended' = [ended EXCEPT ![g] = {}]

\* a handler that only sends a reply: check_msg(send_message(..)); return Ok(())
ReplyOnly(inv) ==
    /\ last' = inv
    /\ UNCHANGED <<task, voice_states, calls, current_channel, bot_in, is_mute,
                   tracks, playing, ended, next_uuid>>

\* ------------------------------------------------------------------------
\* !join
\* ------------------------------------------------------------------------
join(g, u, ok) ==
    LET connect_to == author_channel_id(g, u) IN
    IF connect_to = None
    THEN /\ last' = Command("join", g, u, ErrNotInVoice)
         /\ UNCHANGED <<task, voice_states, calls, current_channel, bot_in,
                        is_mute, tracks, playing, ended, next_uuid>>
    ELSE IF ManagerGet(g)
    THEN /\ last' = Command("join", g, u, ErrAlreadyJoined)
         /\ UNCHANGED <<task, voice_states, calls, current_channel, bot_in,
                        is_mute, tracks, playing, ended, next_uuid>>
    ELSE /\ ManagerJoin(g, connect_to, ok)
         /\ last' = Command("join", g, u,
                        IF ok THEN OkJoined ELSE ErrCouldNotJoin)
         /\ UNCHANGED <<task, voice_states, is_mute, tracks, playing, ended,
                        next_uuid>>

\* ------------------------------------------------------------------------
\* !leave
\* ------------------------------------------------------------------------
leave(g, u, ok) ==
    IF ~ManagerGet(g)
    THEN /\ last' = Command("leave", g, u, ErrNotInVoice)
         /\ UNCHANGED <<task, voice_states, calls, current_channel, bot_in,
                        is_mute, tracks, playing, ended, next_uuid>>
    ELSE IF NotSameChannel(g, u)
    THEN /\ last' = Command("leave", g, u, ErrNotSameChannel)
         /\ UNCHANGED <<task, voice_states, calls, current_channel, bot_in,
                        is_mute, tracks, playing, ended, next_uuid>>
    ELSE /\ ManagerRemove(g, ok)
         \* .expect("Expected author channel id to be defined") panics
         \* after the removal when the author is in no voice channel
         /\ last' = Command("leave", g, u,
                        IF ~ok THEN ErrFailedLeaving
                        ELSE IF author_channel_id(g, u) = None THEN Panicked
                        ELSE OkLeft)
         /\ UNCHANGED <<voice_states, next_uuid>>

\* ------------------------------------------------------------------------
\* !mute and !unmute
\* ------------------------------------------------------------------------
\* mutant of CallMute: the flag is toggled
CallMuteToggles(g, m) == is_mute' = [is_mute EXCEPT ![g] = ~@]

\* voice.mute(m): sets the flag, then sends the gateway update, which may fail
CallMute(g, m) == is_mute' = [is_mute EXCEPT ![g] = m]

\* mutant of mute: without a Call the handler joins the author's channel, as
\* play does, in place of replying with an error
mute_joins(g, u, ok) ==
    IF ~ManagerGet(g)
    THEN /\ ManagerJoin(g, author_channel_id(g, u), ok)
         /\ last' = Command("mute", g, u, OkMuted)
         /\ UNCHANGED <<task, voice_states, is_mute, tracks, playing, ended,
                        next_uuid>>
    ELSE IF NotSameChannel(g, u)
    THEN ReplyOnly(Command("mute", g, u, ErrNotSameChannel))
    ELSE IF is_mute[g]
    THEN ReplyOnly(Command("mute", g, u, OkAlreadyMuted))
    ELSE /\ CallMute(g, TRUE)
         /\ last' = Command("mute", g, u,
                        IF ok THEN OkMuted ELSE ErrCouldNotMute)
         /\ UNCHANGED <<task, voice_states, calls, current_channel, bot_in,
                        tracks, playing, ended, next_uuid>>

mute(g, u, ok) ==
    IF ~ManagerGet(g)
    THEN ReplyOnly(Command("mute", g, u, ErrNotInVoice))
    ELSE IF NotSameChannel(g, u)
    THEN ReplyOnly(Command("mute", g, u, ErrNotSameChannel))
    ELSE IF is_mute[g]
    THEN ReplyOnly(Command("mute", g, u, OkAlreadyMuted))
    ELSE /\ CallMute(g, TRUE)
         /\ last' = Command("mute", g, u,
                        IF ok THEN OkMuted ELSE ErrCouldNotMute)
         /\ UNCHANGED <<task, voice_states, calls, current_channel, bot_in,
                        tracks, playing, ended, next_uuid>>

unmute(g, u, ok) ==
    IF ~ManagerGet(g)
    THEN ReplyOnly(Command("unmute", g, u, ErrNotInVoice))
    ELSE IF NotSameChannel(g, u)
    THEN ReplyOnly(Command("unmute", g, u, ErrNotSameChannel))
    ELSE /\ CallMute(g, FALSE)
         /\ last' = Command("unmute", g, u,
                        IF ok THEN OkUnmuted ELSE ErrCouldNotUnmute)
         /\ UNCHANGED <<task, voice_states, calls, current_channel, bot_in,
                        tracks, playing, ended, next_uuid>>

\* ------------------------------------------------------------------------
\* !skip [n]
\* ------------------------------------------------------------------------
\* args.single::<String>().unwrap_or_else(|_| String::from("1"))
\*     .parse::<usize>()
\* An argument is absent ("none"), an integer literal that fits in usize or
\* is negative ("int", with its value), an integer literal above usize::MAX
\* ("big") or any other text ("text").
ParseUsize(kind, val) ==
    CASE kind = "none" -> [ok |-> TRUE, amount |-> 1]
      [] kind = "int" /\ val >= 0 -> [ok |-> TRUE, amount |-> val]
      [] OTHER -> [ok |-> FALSE, amount |-> 0]

\* the amount is accepted by the match of lines 504-530
AmountTooLarge(amount) == amount > MaxSkip

\* number of tracks drained at line 570: q.drain(0..amount - 1)
DrainCount(amount) == amount - 1

\* lines 565-570 panic: amount - 1 underflows for amount = 0 (overflow check
\* in a debug build, capacity overflow of String::with_capacity in a release
\* build), and drain(0..k) panics when k exceeds the length of the queue
SkipPanics(amount, q) == amount = 0 \/ DrainCount(amount) > Len(q)

\* line 533: voice.queue().skip() succeeds on a head that has not ended; on
\* a head that was stopped or has ended it succeeds or fails, as the driver
\* has or has not yet dropped the track
SkipResult(g, skip_ok) ==
    (tracks[g] /= <<>> /\ Head(tracks[g]) \notin ended[g]) => skip_ok

skip(g, u, kind, val, skip_ok) ==
    LET parsed == ParseUsize(kind, val)
        amount == parsed.amount
        q == tracks[g]
        inv(reply) == Invocation("skip", g, u, kind, val, reply)
    IN
    /\ SkipResult(g, skip_ok)
    /\ IF ~ManagerGet(g)
       THEN ReplyOnly(inv(ErrNotInVoice))
       ELSE IF NotSameChannel(g, u)
       THEN ReplyOnly(inv(ErrNotSameChannel))
       ELSE IF q = <<>>
       THEN ReplyOnly(inv(ErrQueueEmpty))
       ELSE IF parsed.ok /\ AmountTooLarge(amount)
       THEN ReplyOnly(inv(ErrSkipTooMany))
       ELSE IF ~parsed.ok
       THEN ReplyOnly(inv(ErrSkipNotPositive))
       ELSE IF ~skip_ok
       THEN ReplyOnly(inv(ErrCouldNotSkip))
       ELSE IF amount = 1
       THEN /\ QueueSkip(g, q)
            /\ last' = inv(IF TitleMissing(g, {Head(q)}) THEN PanickedNoTitle
                            ELSE OkSkippedCurrent)
            /\ UNCHANGED <<task, voice_states, calls, current_channel, bot_in,
                           is_mute, tracks, next_uuid>>
       ELSE IF SkipPanics(amount, q)
       THEN /\ QueueSkip(g, q)
            /\ last' = inv(Panicked)
            /\ UNCHANGED <<task, voice_states, calls, current_channel, bot_in,
                           is_mute, tracks, next_uuid>>
       ELSE /\ tracks' = [tracks EXCEPT ![g] = Drain(q, DrainCount(amount))]
            /\ QueueSkip(g, Drain(q, DrainCount(amount)))
            /\ last' = inv(IF TitleMissing(g, Range(q) \ Range(Drain(q,
                                               DrainCount(amount))))
                            THEN PanickedNoTitle ELSE OkSkippedFollowing)
            /\ UNCHANGED <<task, voice_states, calls, current_channel, bot_in,
                           is_mute, next_uuid>>

\* ------------------------------------------------------------------------
\* !stop
\* ------------------------------------------------------------------------
stop(g, u) ==
    IF ~ManagerGet(g)
    THEN ReplyOnly(Command("stop", g, u, ErrNotInVoice))
    ELSE IF NotSameChannel(g, u)
    THEN ReplyOnly(Command("stop", g, u, ErrNotSameChannel))
    ELSE /\ QueueStop(g)
         /\ last' = Command("stop", g, u, NoReply)
         /\ UNCHANGED <<task, voice_states, calls, current_channel, bot_in,
                        is_mute, next_uuid>>

\* ------------------------------------------------------------------------
\* !queue, !now and !help
\* ------------------------------------------------------------------------
\* tracks.pop() at line 735: the last element of current_queue(), a Vec of
\* the queue's handles with the head first
PoppedTrack(q) == q[Len(q)]

\* the Vec after tracks.pop()
AfterPop(q) == SubSeq(q, 1, Len(q) - 1)

\* line 749: let len = tracks.len().max(50)
ListLen(rest) == IF Len(rest) > QueueListMax THEN Len(rest) ELSE QueueListMax

\* line 756: tracks.iter().take(len)
Take(rest, len) == SubSeq(rest, 1, IF len < Len(rest) THEN len ELSE Len(rest))

queue(g, u) ==
    LET q == tracks[g] IN
    IF ~ManagerGet(g)
    THEN ReplyOnly(Command("queue", g, u, ErrNotInVoice))
    ELSE IF NotSameChannel(g, u)
    THEN ReplyOnly(Command("queue", g, u, ErrNotSameChannel))
    ELSE IF q = <<>>
    THEN ReplyOnly(Command("queue", g, u, OkQueueEmpty))
    ELSE IF TitleMissing(g, {PoppedTrack(q)}
                            \cup Range(Take(AfterPop(q), ListLen(AfterPop(q)))))
    THEN ReplyOnly(Command("queue", g, u, PanickedNoTitle))
    ELSE ReplyOnly([Command("queue", g, u, OkQueue) EXCEPT
                        !.now = PoppedTrack(q),
                        !.list = Take(AfterPop(q), ListLen(AfterPop(q)))])

now(g, u) ==
    IF ~ManagerGet(g)
    THEN ReplyOnly(Command("now", g, u, ErrNotInVoice))
    ELSE IF NotSameChannel(g, u)
    THEN ReplyOnly(Command("now", g, u, ErrNotSameChannel))
    ELSE IF QueueCurrent(g) = NoTrack
    THEN ReplyOnly(Command("now", g, u, OkNotPlaying))
    ELSE IF TitleMissing(g, {QueueCurrent(g)})
    THEN ReplyOnly(Command("now", g, u, PanickedNoTitle))
    ELSE ReplyOnly([Command("now", g, u, OkNow) EXCEPT
                        !.now = QueueCurrent(g)])

help(g, u) == ReplyOnly(Command("help", g, u, OkHelp))

\* ------------------------------------------------------------------------
\* !play <query|url>
\* ------------------------------------------------------------------------
\* lines 360-379: the guild's Call, joined to the author's channel when the
\* manager has none
GetOrJoin(g, c, ok) ==
    IF ManagerGet(g)
    THEN UNCHANGED <<calls, current_channel, bot_in>>
    ELSE ManagerJoin(g, c, ok)

\* mutant of MissingArg: the argument is not looked at before the join
MissingArgIgnored(kind) == FALSE

\* lines 345-354: args.single::<String>() fails when there is no argument
MissingArg(kind) == kind = "none"

\* The argument is absent ("none"), a name or URL of one track ("track") or
\* a playlist URL ("playlist", with the n tracks of its metadata); resolved
\* tells whether aux_metadata() resp. playlist::query() succeeds.
play(g, u, kind, n, join_ok, resolved) ==
    LET connect_to == author_channel_id(g, u)
        inv(reply) == Invocation("play", g, u, kind, n, reply)
    IN
    IF connect_to = None
    THEN ReplyOnly(inv(ErrNotInVoice))
    ELSE IF MissingArg(kind)
    THEN ReplyOnly(inv(ErrMissingMusic))
    ELSE IF ~ManagerGet(g) /\ ~join_ok
    THEN /\ ManagerJoin(g, connect_to, FALSE)
         /\ last' = inv(ErrPlayCouldNotJoin)
         /\ UNCHANGED <<task, voice_states, is_mute, tracks, playing, ended,
                        next_uuid>>
    ELSE IF ManagerGet(g) /\ NotSameChannel(g, u)
    THEN ReplyOnly(inv(ErrNotSameChannel))
    ELSE IF ~resolved
    THEN /\ GetOrJoin(g, connect_to, TRUE)
         \* line 440: src.aux_metadata().await? returns the error to the
         \* framework, no reply is sent
         /\ last' = inv(IF kind = "playlist" THEN ErrPlaylist ELSE ReturnedErr)
         /\ UNCHANGED <<task, voice_states, is_mute, tracks, playing, ended,
                        next_uuid>>
    ELSE /\ next_uuid + n - 1 <= MaxTracks
         /\ GetOrJoin(g, connect_to, TRUE)
         /\ Enqueue(g, n)
         /\ last' = inv(IF kind = "playlist" THEN OkPlaylistAdded ELSE NoReply)
         /\ UNCHANGED <<task, voice_states, is_mute, ended>>

\* ------------------------------------------------------------------------
\* Track events of the driver
\* ------------------------------------------------------------------------
\* the playing track reaches its end
TrackEnd(g) ==
    /\ playing[g] /= NoTrack
    /\ ended' = [ended EXCEPT ![g] = @ \cup {playing[g]}]
    /\ playing' = [playing EXCEPT ![g] = NoTrack]
    /\ last' = Command("TrackEnd", g, "bot", NoReply)
    /\ UNCHANGED <<task, voice_states, calls, current_channel, bot_in, is_mute,
                   tracks, next_uuid>>

\* the queue's handler of a track's End event: when the ended track is the
\* head of the queue it is popped and the new head, if any, is played; an
\* End event of any other track is ignored
QueueHandler(g, t) ==
    /\ t \in ended[g]
    /\ ended' = [ended EXCEPT ![g] = @ \ {t}]
    /\ IF QueueCurrent(g) = t
       THEN /\ tracks' = [tracks EXCEPT ![g] = Tail(@)]
            /\ playing' = [playing EXCEPT ![g] =
                    IF Tail(tracks[g]) = <<>> THEN NoTrack
                    ELSE Head(Tail(tracks[g]))]
       ELSE UNCHANGED <<tracks, playing>>
    /\ last' = Invocation("QueueHandler", g, "bot", "none", t, NoReply)
    /\ UNCHANGED <<task, voice_states, calls, current_channel, bot_in, is_mute,
                   next_uuid>>

\* ------------------------------------------------------------------------
\* Voice state events and Handler::voice_state_update
\* ------------------------------------------------------------------------
\* voice_channel.members(&ctx.cache).len(): the users whose voice state in
\* the (already updated) cache is the channel, and the bot when it is there
Members(g, c, vs, bot) ==
    Cardinality({u \in Users : vs[g][u] = c}) + (IF c \in bot THEN 1 ELSE 0)

\* lines 48-52: the event is a leave event
IsLeaveEvent(old, new) == old /= None /\ new = None

\* lines 74-77: members remain in the channel that was left
MembersRemain(n) == n > 1

\* the outcome of the handler, named by the line it logs: the event is not a
\* leave event (lines 48-52), a lookup fails (58-61, 69-72), members remain
\* (74-77), manager.remove fails, also for want of a Call (83-85), or the
\* Call is removed
HandlerOutcome(g, old, new, vs, bot, lookup_ok, remove_ok) ==
    IF ~IsLeaveEvent(old, new) THEN LogNotLeave
    ELSE IF ~lookup_ok THEN LogLookupFailed
    ELSE IF MembersRemain(Members(g, old, vs, bot)) THEN LogRemaining
    ELSE IF ~ManagerGet(g) \/ ~remove_ok THEN LogFailedAutoLeave
    ELSE LogAutoLeft

\* a user joins, leaves or changes voice channel; the cache is updated and
\* the handler runs on the event
voice_state_update(g, u, new, lookup_ok, remove_ok) ==
    LET old == voice_states[g][u]
        vs == [voice_states EXCEPT ![g][u] = new]
        outcome == HandlerOutcome(g, old, new, vs, bot_in[g], lookup_ok,
                                  remove_ok)
    IN
    /\ new /= old
    /\ voice_states' = vs
    /\ IF outcome = LogAutoLeft THEN ManagerRemove(g, TRUE)
       ELSE IF outcome = LogFailedAutoLeave /\ ManagerGet(g)
       THEN ManagerRemove(g, FALSE)
       ELSE UNCHANGED <<task, calls, current_channel, bot_in, is_mute,
                        tracks, playing, ended>>
    /\ last' = VoiceEvent(g, u, old, new, outcome)
    /\ UNCHANGED next_uuid

\* the bot is disconnected from its voice channel by a moderator: the Call
\* drops its connection (Call::update_state with no channel) and stays in
\* the manager unless the handler, run on the bot's own leave event, removes
\* it
BotDisconnected(g, lookup_ok) ==
    /\ ManagerGet(g)
    /\ bot_in[g] /= {}
    /\ \E old \in bot_in[g] :
          LET outcome == HandlerOutcome(g, old, None, voice_states, {},
                                        lookup_ok, TRUE)
          IN
          /\ IF outcome = LogAutoLeft
             THEN ManagerRemove(g, TRUE)
             ELSE /\ current_channel' = [current_channel EXCEPT ![g] = None]
                  /\ bot_in' = [bot_in EXCEPT ![g] = {}]
                  /\ UNCHANGED <<task, calls, is_mute, tracks, playing,
                                 ended>>
          /\ last' = VoiceEvent(g, "bot", old, None, outcome)
    /\ UNCHANGED <<voice_states, next_uuid>>

\* ------------------------------------------------------------------------
\* The specification
\* ------------------------------------------------------------------------
\* amounts given to !skip: negative, zero, within the queue, the largest
\* accepted and the smallest rejected
SkipAmounts == {-1, 0, 1, 2, 3, MaxSkip, MaxSkip + 1}

SkipArgs == {<<"none", 0>>, <<"big", 0>>, <<"text", 0>>}
            \cup {<<"int", v>> : v \in SkipAmounts}

PlayArgs == {<<"none", 0>>, <<"track", 1>>}
            \cup {<<"playlist", n>> : n \in 0..MaxPlaylist}

Next ==
    \E g \in Active :
        \/ \E u \in Users, ok \in BOOLEAN : join(g, u, ok)
        \/ \E u \in Users, ok \in BOOLEAN : leave(g, u, ok)
        \/ \E u \in Users, ok \in BOOLEAN : mute(g, u, ok)
        \/ \E u \in Users, ok \in BOOLEAN : unmute(g, u, ok)
        \/ \E u \in Users, a \in PlayArgs, join_ok, resolved \in BOOLEAN :
              play(g, u, a[1], a[2], join_ok, resolved)
        \/ \E u \in Users, a \in SkipArgs, skip_ok \in BOOLEAN :
              skip(g, u, a[1], a[2], skip_ok)
        \/ \E u \in Users : stop(g, u)
        \/ \E u \in Users : queue(g, u)
        \/ \E u \in Users : now(g, u)
        \/ \E u \in Users : help(g, u)
        \/ TrackEnd(g)
        \/ \E t \in TrackIds : QueueHandler(g, t)
        \/ \E u \in Users, new \in Channels \cup {None},
              lookup_ok, remove_ok \in BOOLEAN :
              voice_state_update(g, u, new, lookup_ok, remove_ok)
        \/ \E lookup_ok \in BOOLEAN : BotDisconnected(g, lookup_ok)

Spec == Init /\ [][Next]_vars

\* ------------------------------------------------------------------------
\* The listing commands on long queues
\* ------------------------------------------------------------------------
\* A session in some channel whose queue holds the first n tracks created,
\* the head playing: the state after n tracks were enqueued by play.
InitListing ==
    /\ voice_states \in VoiceStatesIn(Active)
    /\ calls = Active
    /\ current_channel \in
          {cc \in [Guilds -> Channels \cup {None}] :
              \A g \in Guilds : cc[g] = None <=> g \notin Active}
    /\ bot_in = [g \in Guilds |->
                    IF g \in Active THEN {current_channel[g]} ELSE {}]
    /\ is_mute = [g \in Guilds |-> FALSE]
    /\ \E n \in 0..MaxQueueLen :
          /\ tracks = [g \in Guilds |->
                          IF g \in Active THEN [i \in 1..n |-> i] ELSE <<>>]
          /\ playing = [g \in Guilds |->
                           IF g \in Active /\ n > 0 THEN 1 ELSE NoTrack]
          /\ next_uuid = n + 1
    /\ ended = [g \in Guilds |-> {}]
    /\ last = Command("init", "g1", "u1", NoReply)
    /\ task = [u \in Users |-> IdleTask]

NextListing ==
    \E g \in Active, u \in Users :
        \/ queue(g, u)
        \/ now(g, u)

SpecListing == InitListing /\ [][NextListing]_vars

\* ------------------------------------------------------------------------
\* The handlers as concurrent tasks
\* ------------------------------------------------------------------------
\* The framework runs each command on a task of its own on a multi-threaded
\* runtime (#[tokio::main]); here every user has at most one command in
\* flight. A step is what a task does between two points where another
\* task can run and observe the manager or the Call: the handlers that take
\* the guild's Call lock and hold it to their end (skip, stop, now) or read
\* the queue under it (queue) are one step each.
Idle(u) == task[u].pc = "idle"

InFlight(pc, g, c, n, t) ==
    [pc |-> pc, g |-> g, c |-> c, n |-> n, t |-> t, call |-> "live"]

\* mutant of Locked: the playlist loop does not keep the others out
LockedNever(g) == FALSE

\* the Call lock of the guild is held by the enqueue loop of a playlist
\* (lines 414-422); voice_lock.lock().await of the other tasks waits
Locked(g) ==
    \E u \in Users :
        task[u].pc = "locked" /\ task[u].g = g /\ task[u].call = "live"

\* the tasks of u and v hold the same Call
SameCall(u, v) == task[u].g = task[v].g /\ task[u].call = task[v].call

\* the lock of the Call that the task of u holds is held by the enqueue loop
\* of another task
CallLocked(u) ==
    \E v \in Users \ {u} : task[v].pc = "locked" /\ SameCall(u, v)

\* enqueue_with_preload on the Call the task holds: the Call of the guild's
\* session, or a Call that was removed from the manager after the task got
\* it, whose queue no session has
EnqueueInto(u, n) ==
    IF task[u].call = "live"
    THEN Enqueue(task[u].g, n)
    ELSE /\ next_uuid' = next_uuid + n
         /\ UNCHANGED <<tracks, playing>>

\* join, lines 135-159: the guards, up to manager.get(guild_id).is_some()
join_check(g, u) ==
    LET connect_to == author_channel_id(g, u) IN
    /\ Idle(u)
    /\ IF connect_to = None
       THEN ReplyOnly(Command("join", g, u, ErrNotInVoice))
       ELSE IF ManagerGet(g)
       THEN ReplyOnly(Command("join", g, u, ErrAlreadyJoined))
       ELSE /\ task' = [task EXCEPT
                            ![u] = InFlight("join", g, connect_to, 0, NoTrack)]
            /\ last' = Command("join", g, u, Pending)
            /\ UNCHANGED <<voice_states, calls, current_channel, bot_in,
                           is_mute, tracks, playing, ended, next_uuid>>

\* join, lines 161-184: manager.join(guild_id, connect_to) and the reply
join_act(u) ==
    LET g == task[u].g IN
    /\ task[u].pc = "join"
    /\ ~Locked(g)
    /\ ManagerJoin(g, task[u].c, TRUE)
    /\ task' = [task EXCEPT ![u] = IdleTask]
    /\ last' = Command("join", g, u, OkJoined)
    /\ UNCHANGED <<voice_states, is_mute, tracks, playing, ended, next_uuid>>

\* play, lines 334-391: the guards, the Call of the guild (joined when the
\* manager has none) and the channel guard under the Call lock
play_begin(g, u, kind, n) ==
    LET connect_to == author_channel_id(g, u)
        inv(reply) == Invocation("play", g, u, kind, n, reply)
    IN
    /\ Idle(u)
    /\ IF connect_to = None
       THEN ReplyOnly(inv(ErrNotInVoice))
       ELSE IF MissingArg(kind)
       THEN ReplyOnly(inv(ErrMissingMusic))
       ELSE /\ ~Locked(g)
            /\ IF ManagerGet(g) /\ NotSameChannel(g, u)
               THEN ReplyOnly(inv(ErrNotSameChannel))
               ELSE /\ GetOrJoin(g, connect_to, TRUE)
                    /\ task' = [task EXCEPT ![u] =
                           InFlight(IF kind = "playlist" THEN "query"
                                    ELSE "metadata", g, connect_to, n, NoTrack)]
                    /\ last' = inv(Pending)
                    /\ UNCHANGED <<voice_states, is_mute, tracks, playing,
                                   ended, next_uuid>>

\* play, lines 440-444: src.aux_metadata().await?, then the track is
\* enqueued under the Call lock, which is released at the end of the
\* statement
play_enqueue(u, resolved) ==
    LET g == task[u].g
        inv(reply) == Invocation("play", g, u, "track", 1, reply)
    IN
    /\ task[u].pc = "metadata"
    /\ IF ~resolved
       THEN /\ task' = [task EXCEPT ![u] = IdleTask]
            /\ last' = inv(ReturnedErr)
            /\ UNCHANGED <<voice_states, calls, current_channel, bot_in,
                           is_mute, tracks, playing, ended, next_uuid>>
       ELSE /\ ~CallLocked(u)
            /\ next_uuid <= MaxTracks
            /\ EnqueueInto(u, 1)
            /\ task' = [task EXCEPT ![u].pc = "title", ![u].n = 0,
                                    ![u].t = next_uuid]
            /\ last' = inv(Pending)
            /\ UNCHANGED <<voice_states, calls, current_channel, bot_in,
                           is_mute, ended>>

\* play, lines 446-448: the title is inserted in the typemap of the track
play_title(u) ==
    /\ task[u].pc = "title"
    /\ task' = [task EXCEPT ![u] = IdleTask]
    /\ last' = Invocation("play", task[u].g, u, "track", 1, NoReply)
    /\ UNCHANGED <<voice_states, calls, current_channel, bot_in, is_mute,
                   tracks, playing, ended, next_uuid>>

\* play, lines 395-414: playlist::query(&music).await, then the Call lock
\* is taken for the whole loop
playlist_lock(u, resolved) ==
    LET g == task[u].g
        inv(reply) == Invocation("play", g, u, "playlist", task[u].n, reply)
    IN
    /\ task[u].pc = "query"
    /\ IF ~resolved
       THEN /\ task' = [task EXCEPT ![u] = IdleTask]
            /\ last' = inv(ErrPlaylist)
       ELSE /\ ~CallLocked(u)
            /\ next_uuid + task[u].n - 1 <= MaxTracks
            /\ task' = [task EXCEPT ![u].pc = "locked"]
            /\ last' = inv(Pending)
    /\ UNCHANGED <<voice_states, calls, current_channel, bot_in, is_mute,
                   tracks, playing, ended, next_uuid>>

\* play, lines 415-420: one turn of the loop, the track is enqueued and
\* given its title while the Call lock is held
playlist_enqueue(u) ==
    LET g == task[u].g IN
    /\ task[u].pc = "locked"
    /\ task[u].n > 0
    /\ next_uuid <= MaxTracks
    /\ EnqueueInto(u, 1)
    /\ task' = [task EXCEPT ![u].n = @ - 1]
    /\ last' = Invocation("play", g, u, "playlist", task[u].n, Pending)
    /\ UNCHANGED <<voice_states, calls, current_channel, bot_in, is_mute,
                   ended>>

\* play, lines 422-432: drop(voice) and the reply
playlist_done(u) ==
    /\ task[u].pc = "locked"
    /\ task[u].n = 0
    /\ task' = [task EXCEPT ![u] = IdleTask]
    /\ last' = Invocation("play", task[u].g, u, "playlist", 0, OkPlaylistAdded)
    /\ UNCHANGED <<voice_states, calls, current_channel, bot_in, is_mute,
                   tracks, playing, ended, next_uuid>>

\* skip as a task: voice_lock.lock().await at line 481, held to the end
skip_task(g, u, kind, val, skip_ok) ==
    /\ Idle(u)
    /\ ~Locked(g)
    /\ skip(g, u, kind, val, skip_ok)

\* stop as a task: voice_lock.lock().await at line 617, held to the end
stop_task(g, u) ==
    /\ Idle(u)
    /\ ~Locked(g)
    /\ stop(g, u)

\* queue as a task: the queue is read under the Call lock at line 734, the
\* titles after it
queue_task(g, u) ==
    /\ Idle(u)
    /\ ~Locked(g)
    /\ queue(g, u)

\* now as a task: voice_lock.lock().await at line 801, held to the end
now_task(g, u) ==
    /\ Idle(u)
    /\ ~Locked(g)
    /\ now(g, u)

\* leave as a task: voice_lock.lock().await at line 217, and the lock taken
\* inside manager.remove
leave_task(g, u) ==
    /\ Idle(u)
    /\ ~Locked(g)
    /\ leave(g, u, TRUE)

\* a voice state event and its handler: manager.remove (line 79) takes the
\* Call lock
voice_state_task(g, u, new) ==
    /\ ManagerGet(g) => ~Locked(g)
    /\ voice_state_update(g, u, new, TRUE, TRUE)

ConcSkipArgs == {<<"none", 0>>, <<"int", 2>>}

NextConc ==
    \/ \E g \in Active, u \in Users : join_check(g, u)
    \/ \E u \in Users : join_act(u)
    \/ \E g \in Active, u \in Users, a \in PlayArgs :
          play_begin(g, u, a[1], a[2])
    \/ \E u \in Users, resolved \in BOOLEAN : play_enqueue(u, resolved)
    \/ \E u \in Users : play_title(u)
    \/ \E u \in Users, resolved \in BOOLEAN : playlist_lock(u, resolved)
    \/ \E u \in Users : playlist_enqueue(u)
    \/ \E u \in Users : playlist_done(u)
    \/ \E g \in Active, u \in Users, a \in ConcSkipArgs :
          skip_task(g, u, a[1], a[2], TRUE)
    \/ \E g \in Active, u \in Users : stop_task(g, u)
    \/ \E g \in Active, u \in Users : queue_task(g, u)
    \/ \E g \in Active, u \in Users : now_task(g, u)
    \/ \E g \in Active : TrackEnd(g)
    \/ \E g \in Active, t \in TrackIds : QueueHandler(g, t)

SpecConc == Init /\ [][NextConc]_vars

\* play and join commands running concurrently with the removal of the
\* guild's session by leave or by the auto-leave of the voice state handler
NextRemoval ==
    \/ \E g \in Active, u \in Users : join_check(g, u)
    \/ \E u \in Users : join_act(u)
    \/ \E g \in Active, u \in Users, a \in PlayArgs :
          play_begin(g, u, a[1], a[2])
    \/ \E u \in Users, resolved \in BOOLEAN : play_enqueue(u, resolved)
    \/ \E u \in Users : play_title(u)
    \/ \E u \in Users, resolved \in BOOLEAN : playlist_lock(u, resolved)
    \/ \E u \in Users : playlist_enqueue(u)
    \/ \E u \in Users : playlist_done(u)
    \/ \E g \in Active, u \in Users : leave_task(g, u)
    \/ \E g \in Active, u \in Users, new \in Channels \cup {None} :
          voice_state_task(g, u, new)

SpecRemoval == Init /\ [][NextRemoval]_vars

\* ------------------------------------------------------------------------
\* Two guilds
\* ------------------------------------------------------------------------
\* The bot serves both guilds: users of both are in voice channels (a user
\* is connected to voice in one guild at a time), each command carries the
\* guild of its message (msg.guild(&ctx.cache)) and each voice state event
\* the guild of the state (new.guild_id). The voice state events are the
\* leave events, on which alone the handler acts; the library calls
\* succeed.
InitGuilds ==
    /\ voice_states \in
          {vs \in VoiceStatesIn(Guilds) :
              \A u \in Users : \E g \in Guilds :
                  \A h \in Guilds \ {g} : vs[h][u] = None}
    /\ NoCalls

NextGuilds ==
    \E g \in Guilds :
        \/ \E u \in Users : join(g, u, TRUE)
        \/ \E u \in Users : leave(g, u, TRUE)
        \/ \E u \in Users : mute(g, u, TRUE)
        \/ \E u \in Users : unmute(g, u, TRUE)
        \/ \E u \in Users : play(g, u, "track", 1, TRUE, TRUE)
        \/ \E u \in Users : skip(g, u, "none", 0, TRUE)
        \/ \E u \in Users : stop(g, u)
        \/ TrackEnd(g)
        \/ \E t \in TrackIds : QueueHandler(g, t)
        \/ \E u \in Users : voice_state_update(g, u, None, TRUE, TRUE)

SpecGuilds == InitGuilds /\ [][NextGuilds]_vars

TypeOK ==
    /\ voice_states \in [Guilds -> [Users -> Channels \cup {None}]]
    /\ calls \subseteq Guilds
    /\ current_channel \in [Guilds -> Channels \cup {None}]
    /\ bot_in \in [Guilds -> SUBSET Channels]
    /\ is_mute \in [Guilds -> BOOLEAN]
    /\ \A g \in Guilds :
          /\ tracks[g] \in Seq(TrackIds)
          /\ playing[g] \in TrackIds \cup {NoTrack}
          /\ ended[g] \subseteq Range(tracks[g])
    /\ next_uuid \in 1..MaxTracks + 1

\* ------------------------------------------------------------------------
\* Vocabulary of the properties
\* ------------------------------------------------------------------------
\* the step is an invocation of the command op in guild g by user u
Invoked(op, g, u) == last'.op = op /\ last'.g = g /\ last'.u = u

\* the commands that change an existing session
StateChanging == {"leave", "mute", "unmute", "play", "skip", "stop"}

\* the queue, the playing track and the pending End events are as before
QueueUnchanged(g) ==
    /\ tracks'[g] = tracks[g]
    /\ playing'[g] = playing[g]
    /\ ended'[g] = ended[g]

\* the session of the guild (Call, connection, mute flag, queue) is as before
SessionUnchanged(g) == Session(g)' = Session(g)

\* C1: a state-changing command on an existing session whose author is in
\* no voice channel, or in another channel than the session's, leaves the
\* session, the mute flag and the queue unchanged and replies with an error.
C1_GuardedCommands ==
    [][\A g \in Guilds, u \in Users, op \in StateChanging :
        (/\ Invoked(op, g, u)
         /\ ManagerGet(g)
         /\ \/ author_channel_id(g, u) = None
            \/ author_channel_id(g, u) /= current_channel[g])
        => /\ SessionUnchanged(g)
           /\ last'.reply \in ErrorReplies]_vars

\* C2: in every reachable state a guild has at most one session, the bot is
\* a member of at most one voice channel of the guild, that channel is the
\* one its connected session names, and a guild without a session has no
\* connection, no mute flag and no queue.
C2_OneSessionPerGuild ==
    \A g \in Guilds :
        /\ Cardinality(bot_in[g]) <= 1
        /\ (bot_in[g] /= {} /\ current_channel[g] /= None)
               => bot_in[g] = {current_channel[g]}
        /\ ~ManagerGet(g)
               => /\ bot_in[g] = {}
                  /\ current_channel[g] = None
                  /\ ~is_mute[g]
                  /\ tracks[g] = <<>>

\* C2 witness: a join was refused because the guild already has a session
\* that is connected to a voice channel
C2_Witness ==
    /\ last.op = "join"
    /\ last.reply = ErrAlreadyJoined
    /\ bot_in[last.g] /= {}
    /\ voice_states[last.g][last.u] \notin bot_in[last.g]

\* the uuids of a queue increase from head to tail: the tracks are in the
\* order of their creation
InInsertionOrder(q) == \A i, j \in 1..Len(q) : i < j => q[i] < q[j]

\* q2 is q1 without some of its first tracks, followed by newly created
\* tracks in the order of their creation
OnlyRemovesAndAppends(q1, q2) ==
    \E k \in 0..Len(q1) :
        \E n \in 0..Len(q2) :
            q2 = Drain(q1, k) \o NewTracks(n)

\* C3: the tracks of a queue are in the order in which they were enqueued,
\* and every step only removes tracks from the head of the queue and appends
\* new tracks at its tail, in playlist order; the remaining tracks are never
\* reordered.
C3_QueueOrder ==
    /\ [](\A g \in Guilds : InInsertionOrder(tracks[g]))
    /\ [][\A g \in Guilds : OnlyRemovesAndAppends(tracks[g], tracks'[g])]_vars

\* C3 witness: a playlist of two tracks was appended behind a queued track
C3_Witness ==
    /\ last.op = "play"
    /\ last.kind = "playlist"
    /\ last.val = 2
    /\ Len(tracks[last.g]) = 3

\* the session of guild g is created resp. destroyed by the step
SessionCreated(g) == ~ManagerGet(g) /\ ManagerGet(g)'
SessionDestroyed(g) == ManagerGet(g) /\ ~ManagerGet(g)'

\* C4 as stated: a session is created only by a join command and destroyed
\* only by a leave command or by the auto-leave of the voice state handler.
C4_CreatedOnlyByJoin ==
    [][\A g \in Guilds :
        /\ SessionCreated(g) => (last'.op = "join" /\ last'.g = g)
        /\ SessionDestroyed(g)
              => /\ last'.g = g
                 /\ \/ last'.op = "leave"
                    \/ last'.op = "voice_state_update"
                         /\ last'.reply = LogAutoLeft]_vars

\* C4 amended: a session is created only by a join or a play command whose
\* author is in a voice channel, which calls manager.join for that channel
\* (the Call stays in the manager also when the join fails); it is
\* destroyed only by a leave command that passes the channel guard and whose
\* manager.remove succeeds, or by the auto-leave of the voice state handler.
C4_CreatedByJoinOrPlay ==
    [][\A g \in Guilds :
        /\ SessionCreated(g)
              => /\ last'.op \in {"join", "play"} /\ last'.g = g
                 /\ author_channel_id(g, last'.u) /= None
                 /\ current_channel'[g] = author_channel_id(g, last'.u)
                 /\ last'.reply \in {OkJoined, ErrCouldNotJoin,
                                     ErrPlayCouldNotJoin, ErrPlaylist,
                                     OkPlaylistAdded, NoReply, ReturnedErr}
        /\ SessionDestroyed(g)
              => /\ last'.g = g
                 /\ \/ /\ last'.op = "leave"
                       /\ author_channel_id(g, last'.u) = current_channel[g]
                       /\ last'.reply \in {OkLeft, Panicked}
                    \/ /\ last'.op = "voice_state_update"
                       /\ last'.reply = LogAutoLeft
                       /\ IsLeaveEvent(last'.from, last'.to)]_vars

\* C4 witness: a play command of a user created the session with its first
\* track, and no join command could have: the bot is in the author's channel
\* and only one track was ever created
C4_Witness ==
    /\ last.op = "play"
    /\ last.kind = "track"
    /\ ManagerGet(last.g)
    /\ bot_in[last.g] = {voice_states[last.g][last.u]}
    /\ tracks[last.g] = <<1>>
    /\ next_uuid = 2

\* the users that the cache shows in channel c of guild g after the step
UsersLeftIn(g, c) == {u \in Users : voice_states'[g][u] = c}

\* C5: the voice state handler, run on the event of a user, destroys the
\* session of a connected bot only when the channel that user left is the
\* one the bot is connected to and no other user remains in it.
C5_AutoLeaveOnlyWhenEmpty ==
    [][\A g \in Guilds :
        (/\ last'.op = "voice_state_update" /\ last'.g = g
         /\ last'.u \in Users
         /\ bot_in[g] = {current_channel[g]}
         /\ SessionDestroyed(g))
        => /\ last'.from = current_channel[g]
           /\ UsersLeftIn(g, last'.from) = {}]_vars

\* C6: when a user leaves the voice channel the bot is connected to, by
\* disconnecting or by changing channel, and no other user remains in it,
\* the voice state handler removes the session, unless a lookup or the
\* removal itself fails.
C6_AutoLeaveWhenEmpty ==
    [][\A g \in Guilds :
        (/\ last'.op = "voice_state_update" /\ last'.g = g
         /\ last'.u \in Users
         /\ ManagerGet(g)
         /\ last'.from /= None
         /\ last'.from = current_channel[g]
         /\ last'.from \in bot_in[g]
         /\ UsersLeftIn(g, last'.from) = {}
         /\ last'.reply \notin {LogLookupFailed, LogFailedAutoLeave})
        => ~ManagerGet(g)']_vars

\* the channel guard of the handlers lets the author through
Permitted(g, u) == ManagerGet(g) /\ author_channel_id(g, u) = current_channel[g]

\* the queue as it is once the pending End event of a stopped head has been
\* handled
EffectiveQueue(q, e) == IF q /= <<>> /\ Head(q) \in e THEN Tail(q) ELSE q

\* the argument of the step's skip is the amount n
SkipAmountIs(n) ==
    \/ last'.kind = "none" /\ n = 1
    \/ last'.kind = "int" /\ last'.val = n

\* C7: a permitted skip with amount n, 1 <= n <= 20, on a queue of at least n
\* tracks whose head has not ended removes exactly the first n tracks and
\* keeps the others in order.
C7_SkipRemovesAmount ==
    [][\A g \in Guilds, u \in Users, n \in 1..MaxSkip :
        (/\ Invoked("skip", g, u)
         /\ Permitted(g, u)
         /\ SkipAmountIs(n)
         /\ Len(tracks[g]) >= n
         /\ Head(tracks[g]) \notin ended[g])
        => EffectiveQueue(tracks'[g], ended'[g]) = Drain(tracks[g], n)]_vars

\* C8: a permitted skip on a non-empty queue whose argument is not a positive
\* integer (zero, negative or not a number) is rejected with the reply
\* "Amount of tracks to skip must be a positive integer" and leaves the
\* playing track and the queue unchanged.
C8_SkipRejectsNonPositive ==
    [][\A g \in Guilds, u \in Users :
        (/\ Invoked("skip", g, u)
         /\ Permitted(g, u)
         /\ tracks[g] /= <<>>
         /\ \/ last'.kind = "text"
            \/ last'.kind = "int" /\ last'.val <= 0)
        => /\ last'.reply = ErrSkipNotPositive
           /\ QueueUnchanged(g)]_vars

\* C9: a permitted skip on a non-empty queue with an amount greater than 20
\* is rejected with the reply "Cannot skip more than 20 tracks at once" and
\* leaves the playing track and the queue unchanged.
C9_SkipRejectsOverMax ==
    [][\A g \in Guilds, u \in Users :
        (/\ Invoked("skip", g, u)
         /\ Permitted(g, u)
         /\ tracks[g] /= <<>>
         /\ \/ last'.kind = "big"
            \/ last'.kind = "int" /\ last'.val > MaxSkip)
        => /\ last'.reply = ErrSkipTooMany
           /\ QueueUnchanged(g)]_vars

\* C10: after a permitted stop the playing track is stopped and the queue is
\* empty, whatever its length was, and the Call, its channel, the bot's
\* voice connection and the mute flag are as before.
C10_StopClearsQueue ==
    [][\A g \in Guilds, u \in Users :
        (Invoked("stop", g, u) /\ Permitted(g, u))
        => /\ tracks'[g] = <<>>
           /\ playing'[g] = NoTrack
           /\ ended'[g] = {}
           /\ ManagerGet(g)'
           /\ current_channel'[g] = current_channel[g]
           /\ bot_in'[g] = bot_in[g]
           /\ is_mute'[g] = is_mute[g]]_vars

\* C10 witness: a stop of a user in the bot's channel went through on a
\* muted session for which three tracks had been enqueued
C10_Witness ==
    /\ last.op = "stop"
    /\ last.reply = NoReply
    /\ ManagerGet(last.g)
    /\ voice_states[last.g][last.u] \in bot_in[last.g]
    /\ is_mute[last.g]
    /\ next_uuid = MaxTracks + 1
    /\ tracks[last.g] = <<>>

\* C11: a play of a resolvable track by a user in voice channel c: without
\* a session the bot joins c and the track is the queue; with a session in
\* c the track is appended at the tail and the playing track, the queued
\* tracks, the channel and the mute flag are as before (the new track plays
\* at once only when the queue was empty).
C11_PlayJoinsOrAppends ==
    [][\A g \in Guilds, u \in Users :
        (/\ Invoked("play", g, u)
         /\ last'.kind = "track"
         /\ last'.reply = NoReply
         /\ author_channel_id(g, u) /= None)
        => /\ ManagerGet(g)'
           /\ current_channel'[g] = author_channel_id(g, u)
           /\ tracks'[g] = Append(tracks[g], next_uuid)
           /\ ended'[g] = ended[g]
           /\ IF ManagerGet(g)
              THEN /\ current_channel[g] = author_channel_id(g, u)
                   /\ bot_in'[g] = bot_in[g]
                   /\ is_mute'[g] = is_mute[g]
                   /\ playing'[g] = IF tracks[g] = <<>> THEN next_uuid
                                     ELSE playing[g]
              ELSE /\ bot_in'[g] = {author_channel_id(g, u)}
                   /\ tracks'[g] = <<next_uuid>>
                   /\ playing'[g] = next_uuid]_vars

\* C11 witness: a track was appended behind two queued tracks while the head
\* of the queue plays on
C11_Witness ==
    /\ last.op = "play"
    /\ last.kind = "track"
    /\ last.reply = NoReply
    /\ tracks[last.g] = <<1, 2, 3>>
    /\ playing[last.g] = 1
    /\ bot_in[last.g] = {voice_states[last.g][last.u]}

Commands == {"help", "join", "leave", "mute", "unmute", "play", "skip",
             "stop", "queue", "now"}

\* C12: every invocation of a command handler sends a reply message before
\* it completes: no command step ends without a reply, by returning an
\* error to the framework or by a panic.
C12_EveryCommandReplies ==
    [][last'.op \in Commands
       => last'.reply \notin {NoReply, ReturnedErr, Panicked,
                              PanickedNoTitle}]_vars

\* C16: the track that the queue command reports as "Now playing" is the
\* head of the queue, the track the now command reports in the same state,
\* and the list that follows holds the tracks behind the head in queue
\* order.
C16_QueueReportsHead ==
    [][\A g \in Guilds, u \in Users :
        (Invoked("queue", g, u) /\ last'.reply = OkQueue)
        => /\ last'.now = QueueCurrent(g)
           /\ last'.list = Tail(tracks[g])]_vars

\* C18: a play command whose author is in no voice channel, or that has no
\* track argument, is rejected before any library call: it replies with an
\* error, no session is created, the bot joins no channel and nothing is
\* enqueued.
C18_PlayRejectedEarly ==
    [][\A g \in Guilds, u \in Users :
        (/\ Invoked("play", g, u)
         /\ (author_channel_id(g, u) = None \/ last'.kind = "none"))
        => /\ last'.reply \in {ErrNotInVoice, ErrMissingMusic}
           /\ SessionUnchanged(g)
           /\ QueueUnchanged(g)
           /\ next_uuid' = next_uuid]_vars

\* C18 witness: a play without argument by a user in a voice channel was
\* rejected on a guild without a session
C18_Witness ==
    /\ last.op = "play"
    /\ last.kind = "none"
    /\ voice_states[last.g][last.u] /= None
    /\ last.reply = ErrMissingMusic
    /\ ~ManagerGet(last.g)

NeedSession == {"leave", "mute", "unmute", "skip", "stop", "queue", "now"}

\* C19: while a guild has no session, each of leave, mute, unmute, skip,
\* stop, queue and now replies with an error and leaves the guild without a
\* session: no Call, no connection and no queue is created.
C19_NoSessionNoEffect ==
    [][\A g \in Guilds, u \in Users, op \in NeedSession :
        (Invoked(op, g, u) /\ g \notin calls)
        => /\ last'.reply \in ErrorReplies
           /\ g \notin calls'
           /\ SessionUnchanged(g)
           /\ tracks'[g] = <<>>
           /\ next_uuid' = next_uuid]_vars

\* C19 witness: a skip was answered with the error on a guild whose session
\* had been removed
C19_Witness ==
    /\ last.op = "skip"
    /\ last.reply = ErrNotInVoice
    /\ last.g \notin calls
    /\ next_uuid > 1

\* C14: a mute that passes the guards leaves the bot muted and an unmute
\* that passes them leaves it unmuted; a mute of a muted bot changes nothing
\* and replies that it is already muted; neither command changes the Call,
\* its channel, the queue or the playing track.
C14_MuteUnmute ==
    [][\A g \in Guilds, u \in Users :
        /\ (Invoked("mute", g, u) /\ Permitted(g, u))
           => /\ is_mute'[g]
              /\ is_mute[g] => /\ last'.reply = OkAlreadyMuted
                               /\ SessionUnchanged(g)
        /\ (Invoked("unmute", g, u) /\ Permitted(g, u))
           => ~is_mute'[g]
        /\ (Invoked("mute", g, u) \/ Invoked("unmute", g, u))
           => /\ QueueUnchanged(g)
              /\ calls' = calls
              /\ current_channel'[g] = current_channel[g]
              /\ bot_in'[g] = bot_in[g]
              /\ next_uuid' = next_uuid]_vars

\* C14 witness: a mute of a muted bot with a playing track was answered
\* with "already muted"
C14_Witness ==
    /\ last.op = "mute"
    /\ last.reply = OkAlreadyMuted
    /\ is_mute[last.g]
    /\ playing[last.g] /= NoTrack
    /\ Len(tracks[last.g]) >= 2

\* C13: the reply of the queue command lists at most the first 50 tracks of
\* the queue, in queue order, however many tracks the queue holds.
C13_QueueListsAtMost50 ==
    [][\A g \in Guilds, u \in Users :
        (Invoked("queue", g, u) /\ last'.reply = OkQueue)
        => /\ Len(last'.list) <= QueueListMax
           /\ Range(last'.list) \subseteq Range(tracks[g])
           /\ InInsertionOrder(last'.list)]_vars

\* C15: every track a command can observe in a guild's queue has its title
\* stored: under any interleaving of a play command with queue, now and
\* skip commands on the guild, get_track_title never finds the title of a
\* queued track missing.
C15_TitleAlwaysStored ==
    [][last'.op \in {"queue", "now", "skip"}
       => last'.reply /= PanickedNoTitle]_vars

\* C17: once a guild has a session connected to a voice channel, a join
\* command of a user in another voice channel does not move the bot: it
\* replies "I'm already in another voice channel" and leaves the channel,
\* the mute flag and the queue unchanged, also when the join runs
\* concurrently with the join that created the session.
C17_JoinNeverMoves ==
    [][\A g \in Guilds, u \in Users :
        (/\ Invoked("join", g, u)
         /\ ManagerGet(g)
         /\ current_channel[g] /= None
         /\ voice_states[g][u] \notin {None, current_channel[g]})
        => /\ last'.reply = ErrAlreadyJoined
           /\ SessionUnchanged(g)]_vars

\* C20: while a playlist play command enqueues its tracks (it holds the
\* Call lock), every track created is a track of that command, appended at
\* the tail of the guild's queue, and no skip or stop of the guild changes
\* the queue or the playing track: the batch is one contiguous block in
\* playlist order.
C20_PlaylistIsOneBlock ==
    [][\A g \in Guilds, u \in Users :
        (task[u].pc = "locked" /\ task[u].g = g)
        => /\ next_uuid' /= next_uuid
              => /\ last'.op = "play" /\ last'.u = u
                 /\ tracks'[g] = Append(tracks[g], next_uuid)
           /\ (last'.op \in {"skip", "stop"} /\ last'.g = g)
              => QueueUnchanged(g)
           /\ \A i \in 1..Len(tracks'[g]) :
                 tracks'[g][i] \in Range(tracks[g])
                 \/ tracks'[g][i] = next_uuid]_vars

\* C20 witness: a playlist of two tracks has been enqueued behind a playing
\* track as one block while the play command of another user was waiting
\* to enqueue its track
C20_Witness ==
    \E u, v \in Users :
        /\ task[u].pc = "locked"
        /\ task[u].n = 0
        /\ task[v].pc = "metadata"
        /\ task[v].g = task[u].g
        /\ tracks[task[u].g] = <<1, 2, 3>>
        /\ last.op = "play"
        /\ last.u = u

\* C21: a permitted skip with an accepted amount n, 1 <= n <= 20, on a
\* non-empty queue whose head has not ended completes normally, also when n
\* is larger than the number of queued tracks: it does not panic, it sends
\* its reply, and when fewer than n tracks were queued the queue is empty
\* afterwards.
C21_SkipNeverAborts ==
    [][\A g \in Guilds, u \in Users, n \in 1..MaxSkip :
        (/\ Invoked("skip", g, u)
         /\ Permitted(g, u)
         /\ SkipAmountIs(n)
         /\ tracks[g] /= <<>>
         /\ Head(tracks[g]) \notin ended[g])
        => /\ last'.reply \in {OkSkippedCurrent, OkSkippedFollowing}
           /\ Len(tracks[g]) < n
              => EffectiveQueue(tracks'[g], ended'[g]) = <<>>]_vars

\* the head of the guild's queue is not playing and no End event of it is
\* pending: no step of the driver starts it
Stalled(g) ==
    /\ tracks[g] /= <<>>
    /\ playing[g] /= Head(tracks[g])
    /\ Head(tracks[g]) \notin ended[g]

\* C22: the queue never stalls: in every state a non-empty queue has its
\* head playing, or the End event of its head (after a skip or a natural
\* end) is pending and its handling starts the new head without any
\* further command.
C22_QueueNeverStalls == \A g \in Guilds : ~Stalled(g)

\* C23: no track is enqueued into a session that has been destroyed: under
\* any interleaving of a play command with a leave or an auto-leave of the
\* guild, every track that a step of play creates and enqueues is, after
\* the step, in the queue of the guild's session.
C23_EnqueuedIntoLiveSession ==
    [][\A g \in Guilds, u \in Users :
        (Invoked("play", g, u) /\ next_uuid' /= next_uuid)
        => /\ ManagerGet(g)'
           /\ next_uuid \in Range(tracks'[g])]_vars

\* C24: guild isolation: a command issued in one guild, or a voice state
\* event of one guild, leaves the session of every other guild (its Call,
\* its channel, its mute flag, its queue and its playing track) unchanged.
C24_GuildIsolation ==
    [][\A g \in Guilds : last'.g /= g => SessionUnchanged(g)]_vars

\* C24 witness: the session of one guild was removed by a leave while the
\* other guild has a muted session with a playing track
C24_Witness ==
    \E g \in Guilds :
        /\ last.op = "leave"
        /\ last.reply = OkLeft
        /\ last.g /= g
        /\ last.g \notin calls
        /\ next_uuid > 2
        /\ g \in calls
        /\ is_mute[g]
        /\ playing[g] /= NoTrack

====
